---- MODULE Spec2Model ----
(***************************************************************************)
(* Shortcut design of a five-component distillation column                 *)
(* (MEDMATH7/OP2_PROJETO_2): the separation specification builder, the FUG  *)
(* solver (Fenske, Underwood bisection), the internal flows of the tray     *)
(* column and main()'s order of stages.                                     *)
(*                                                                         *)
(* NUMBERS.  The program computes in IEEE-754 binary64 (Python float,       *)
(* numpy float64).  Here a float is a decimal fixed-point number with       *)
(* FracDigits fractional digits and unbounded range, or +inf, -inf or nan:  *)
(*     [k |-> "fin", s |-> sign, m |-> magnitude]   value s * m / 10^12     *)
(*     [k |-> "inf", s |-> sign, m |-> <<>>],  [k |-> "nan", s |-> 0, ...]  *)
(* The magnitude is a natural number written as a sequence of limbs in      *)
(* base Base, least significant first, without leading zero limbs (TLC's    *)
(* integers are 32 bits wide).  Addition and subtraction are exact.         *)
(* Multiplication and division round toward zero to the unit 10^-12, where  *)
(* binary64 rounds to nearest at relative precision 2^-53; a nonzero        *)
(* product or quotient of finite numbers is never rounded to zero but to    *)
(* one unit, as binary64 underflows only below 10^-308, far outside the     *)
(* magnitudes met here.  Division by zero, and every operation on inf and   *)
(* nan, follow IEEE-754 as numpy applies it (a warning, never an            *)
(* exception); zero carries no sign.                                        *)
(***************************************************************************)
EXTENDS Integers, Sequences, FiniteSets, TLC

VARIABLES
    pc,     \* the function under way and, in main, the stage about to run
    feed,   \* main: what definir_alimentacao returned
    spec,   \* main: the SeparationSpec
    fug,    \* main: N_min, RR_min and theta
    ran,    \* main: the stages that have returned, in order
    exc,    \* the exception that ended the run
    uw,     \* solve_underwood_theta: its arguments
    frame,  \* solve_underwood_theta: its frame
    call,   \* a function called on its own: its arguments
    res     \* a function called on its own: its locals and its result

vars == <<pc, feed, spec, fug, ran, exc, uw, frame, call, res>>

\* ------------------------------------------------------------------------
\* Naturals of any size: sequences of limbs, least significant first.
\* ------------------------------------------------------------------------
Base == 1000
FracLimbs == 4
FracDigits == 12

Limb(a, i) == IF i <= Len(a) THEN a[i] ELSE 0

MaxOf(S) == CHOOSE i \in S : \A j \in S : j <= i

\* a without its leading zero limbs.
BNorm(a) ==
    LET nz == { i \in 1..Len(a) : a[i] # 0 }
    IN  IF nz = {} THEN <<>> ELSE SubSeq(a, 1, MaxOf(nz))

\* A natural number below Base^3.
BFromInt(n) == BNorm(<<n % Base, (n \div Base) % Base, n \div (Base * Base)>>)

\* -1, 0, 1 as a < b, a = b, a > b (both normalised).
BCmp(a, b) ==
    IF Len(a) > Len(b) THEN 1
    ELSE IF Len(a) < Len(b) THEN -1
    ELSE LET d == { i \in 1..Len(a) : a[i] # b[i] }
         IN  IF d = {} THEN 0
             ELSE IF a[MaxOf(d)] > b[MaxOf(d)] THEN 1 ELSE -1

\* a + b.  Limb i receives a carry when a limb below it overflows and every
\* limb between is full.
BAdd(a, b) ==
    LET n == IF Len(a) > Len(b) THEN Len(a) + 1 ELSE Len(b) + 1
        s == [i \in 1..n |-> Limb(a, i) + Limb(b, i)]
        c == [i \in 1..n |->
                IF \E j \in 1..(i - 1) :
                      s[j] >= Base /\ \A k \in (j + 1)..(i - 1) : s[k] = Base - 1
                THEN 1 ELSE 0]
    IN  BNorm([i \in 1..n |-> (s[i] + c[i]) % Base])

\* a - b for a >= b.  Limb i lends when a limb below it is short and every
\* limb between is equal.
BSub(a, b) ==
    LET n == Len(a)
        c == [i \in 1..n |->
                IF \E j \in 1..(i - 1) :
                      a[j] < Limb(b, j) /\ \A k \in (j + 1)..(i - 1) : a[k] = Limb(b, k)
                THEN 1 ELSE 0]
    IN  BNorm([i \in 1..n |-> (a[i] - Limb(b, i) - c[i] + Base) % Base])

\* a * k for 0 <= k < Base: the low and the high halves of the limb products.
BMulSmall(a, k) ==
    BAdd([i \in 1..Len(a) |-> (a[i] * k) % Base],
         [i \in 1..(Len(a) + 1) |-> IF i = 1 THEN 0 ELSE (a[i - 1] * k) \div Base])

\* a * Base^n and a \div Base^n.
BShift(a, n) == IF a = <<>> THEN <<>> ELSE [i \in 1..n |-> 0] \o a
BDrop(a, n) == IF Len(a) <= n THEN <<>> ELSE SubSeq(a, n + 1, Len(a))

\* Column c of the product: the sum of a[i] * b[c + 1 - i].
RECURSIVE BColumn(_, _, _, _)
BColumn(a, b, c, i) ==
    IF i > Len(a) \/ i > c THEN 0
    ELSE (IF c + 1 - i <= Len(b) THEN a[i] * b[c + 1 - i] ELSE 0)
         + BColumn(a, b, c, i + 1)

\* a * b for factors of at most 2000 limbs: the columns, each below 2^31,
\* split in three limbs.
BMul(a, b) ==
    IF a = <<>> \/ b = <<>> THEN <<>>
    ELSE LET n   == Len(a) + Len(b) - 1
             col == [c \in 1..n |-> BColumn(a, b, c, 1)]
         IN  BAdd(BAdd([c \in 1..n |-> col[c] % Base],
                       <<0>> \o [c \in 1..n |-> (col[c] \div Base) % Base]),
                  <<0, 0>> \o [c \in 1..n |-> col[c] \div (Base * Base)])

\* The largest k in lo..hi with b * k <= r, given b * lo <= r < b * (hi + 1).
RECURSIVE BQuotSearch(_, _, _, _)
BQuotSearch(r, b, lo, hi) ==
    IF lo >= hi THEN lo
    ELSE LET k == (lo + hi + 1) \div 2
         IN  IF BCmp(BMulSmall(b, k), r) <= 0
             THEN BQuotSearch(r, b, k, hi)
             ELSE BQuotSearch(r, b, lo, k - 1)

\* r \div b for b <= r < b * Base: the leading limbs of r and b bracket the
\* quotient limb, the search settles it.
BQuotLimb(r, b) ==
    LET n == Len(b)
    IN  IF n = 1
        THEN (Limb(r, 2) * Base + r[1]) \div b[1]
        ELSE LET bt == b[n] * Base + b[n - 1]
                 rt == (Limb(r, n + 1) * Base + Limb(r, n)) * Base + Limb(r, n - 1)
                 lo == rt \div (bt + 1)
                 hi == (rt + 1) \div bt
             IN  BQuotSearch(r, b, IF lo < 1 THEN 1 ELSE lo,
                             IF hi > Base - 1 THEN Base - 1 ELSE hi)

\* One step of the long division of a by b, most significant limb first: r is
\* the running remainder and q the quotient limbs produced so far, which tell
\* the limb of a that comes next.
BDivStep(a, b, st) ==
    LET r1 == BNorm(<<a[Len(a) - Len(b) + 1 - Len(st.q)]>> \o st.r)
        k  == IF BCmp(r1, b) < 0 THEN 0 ELSE BQuotLimb(r1, b)
    IN  [q |-> <<k>> \o st.q, r |-> BSub(r1, BMulSmall(b, k))]

RECURSIVE BDivAt(_, _, _)
BDivAt(a, b, st) ==
    IF Len(st.q) = Len(a) - Len(b) + 1 THEN BNorm(st.q)
    ELSE BDivAt(a, b, BDivStep(a, b, st))

\* a \div b for b > 0: the leading Len(b) - 1 limbs of a are below b, and the
\* division starts under them.
BDiv(a, b) ==
    IF Len(a) < Len(b) THEN <<>>
    ELSE BDivAt(a, b, [q |-> <<>>, r |-> SubSeq(a, Len(a) - Len(b) + 2, Len(a))])

\* 10^e.
BPow10(e) ==
    [i \in 1..(e \div 3) |-> 0]
        \o <<IF e % 3 = 0 THEN 1 ELSE IF e % 3 = 1 THEN 10 ELSE 100>>

\* ------------------------------------------------------------------------
\* Floats: dtype=float of the program (see NUMBERS above).
\* ------------------------------------------------------------------------
Fin(sg, mag) == [k |-> "fin", s |-> (IF mag = <<>> THEN 0 ELSE sg), m |-> mag]
Inf(sg) == [k |-> "inf", s |-> sg, m |-> <<>>]
NaN == [k |-> "nan", s |-> 0, m |-> <<>>]
Zero == Fin(0, <<>>)
One == Fin(1, BPow10(FracDigits))

\* The float written n / 10^d in the source, for an integer n and d <= 12.
Dec(n, d) ==
    Fin(IF n < 0 THEN -1 ELSE 1,
        BMul(BFromInt(IF n < 0 THEN -n ELSE n), BPow10(FracDigits - d)))

IsFinite(x) == x.k = "fin"
IsNaN(x) == x.k = "nan"

FNeg(x) == [x EXCEPT !.s = -x.s]
FAbs(x) == [x EXCEPT !.s = (IF x.s = 0 THEN 0 ELSE 1)]

FAdd(x, y) ==
    IF IsNaN(x) \/ IsNaN(y) THEN NaN
    ELSE IF x.k = "inf" THEN (IF y.k = "inf" /\ y.s # x.s THEN NaN ELSE x)
    ELSE IF y.k = "inf" THEN y
    ELSE IF x.s = 0 THEN y
    ELSE IF y.s = 0 THEN x
    ELSE IF x.s = y.s THEN Fin(x.s, BAdd(x.m, y.m))
    ELSE LET c == BCmp(x.m, y.m)
         IN  IF c = 0 THEN Zero
             ELSE IF c > 0 THEN Fin(x.s, BSub(x.m, y.m))
             ELSE Fin(y.s, BSub(y.m, x.m))

FSub(x, y) == FAdd(x, FNeg(y))

\* A rounded magnitude of a nonzero result: never zero.
Rounded(mag) == IF mag = <<>> THEN <<1>> ELSE mag

FMul(x, y) ==
    IF IsNaN(x) \/ IsNaN(y) THEN NaN
    ELSE IF x.k = "inf" \/ y.k = "inf"
         THEN (IF x.s = 0 \/ y.s = 0 THEN NaN ELSE Inf(x.s * y.s))
    ELSE IF x.s = 0 \/ y.s = 0 THEN Zero
    ELSE Fin(x.s * y.s, Rounded(BDrop(BMul(x.m, y.m), FracLimbs)))

\* numpy's true division: x / 0 is inf or nan, never an exception.
FDiv(x, y) ==
    IF IsNaN(x) \/ IsNaN(y) THEN NaN
    ELSE IF y.k = "inf" THEN (IF x.k = "inf" THEN NaN ELSE Zero)
    ELSE IF x.k = "inf" THEN Inf(IF y.s < 0 THEN -x.s ELSE x.s)
    ELSE IF y.s = 0 THEN (IF x.s = 0 THEN NaN ELSE Inf(x.s))
    ELSE IF x.s = 0 THEN Zero
    ELSE Fin(x.s * y.s, Rounded(BDiv(BShift(x.m, FracLimbs), y.m)))

\* -1, 0, 1 for two floats that are not nan.
FCmp(x, y) ==
    IF x.k = "inf" /\ y.k = "inf"
    THEN (IF x.s > y.s THEN 1 ELSE IF x.s < y.s THEN -1 ELSE 0)
    ELSE IF x.k = "inf" THEN x.s
    ELSE IF y.k = "inf" THEN -y.s
    ELSE IF x.s # y.s THEN (IF x.s > y.s THEN 1 ELSE -1)
    ELSE x.s * BCmp(x.m, y.m)

\* Comparisons with nan are false.
FLt(x, y) == ~IsNaN(x) /\ ~IsNaN(y) /\ FCmp(x, y) < 0
FGt(x, y) == ~IsNaN(x) /\ ~IsNaN(y) /\ FCmp(x, y) > 0
FLe(x, y) == ~IsNaN(x) /\ ~IsNaN(y) /\ FCmp(x, y) <= 0
FGe(x, y) == ~IsNaN(x) /\ ~IsNaN(y) /\ FCmp(x, y) >= 0
FEq(x, y) == ~IsNaN(x) /\ ~IsNaN(y) /\ FCmp(x, y) = 0

\* Python's sum(xs) and numpy's np.sum(xs): left to right from 0.
RECURSIVE FSumTo(_, _)
FSumTo(xs, n) == IF n = 0 THEN Zero ELSE FAdd(FSumTo(xs, n - 1), xs[n])
FSum(xs) == FSumTo(xs, Len(xs))

\* Python's float division, which raises ZeroDivisionError on a zero divisor.
PyDivRaises(x, y) == IsFinite(y) /\ y.s = 0

\* np.log.  On a finite x > 0: x = y * 10^e with 1 <= y < 10, y brought into
\* [1, 1.25) by divisions by 2, 1.5 and 1.25, and
\*     ln v = 2 * (t + t^3/3 + t^5/5 + ...),  t = (v - 1) / (v + 1) < 1/9,
\* summed to LogTermos terms, the rest being below the unit.
LN10 == Fin(1, <<994, 92, 585, 302, 2>>)
LN2 == Fin(1, <<560, 180, 147, 693>>)
LN1_5 == Fin(1, <<108, 108, 465, 405>>)
LN1_25 == Fin(1, <<314, 551, 143, 223>>)
LogTermos == 7

\* The decimal exponent e of a magnitude: 10^e <= m / 10^12 < 10^(e+1).
Expoente10(mag) ==
    3 * (Len(mag) - 1) - FracDigits
        + (IF mag[Len(mag)] < 10 THEN 0 ELSE IF mag[Len(mag)] < 100 THEN 1 ELSE 2)

LogStep(t2, st) ==
    [k |-> st.k + 1, pot |-> FMul(st.pot, t2),
     acc |-> FAdd(st.acc, FDiv(st.pot, Dec(2 * st.k + 1, 0)))]

RECURSIVE LogSerie(_, _)
LogSerie(t2, st) == IF st.k = LogTermos THEN st.acc ELSE LogSerie(t2, LogStep(t2, st))

\* The reduction of y in [1, 10): <<v, ln(y / v)>>.
LogReduz(st, c, lnc, n) ==
    IF FGe(st[1], Dec(n, 2)) THEN <<FDiv(st[1], c), FAdd(st[2], lnc)>> ELSE st

LogPositivo(x) ==
    LET e  == Expoente10(x.m)
        y  == IF e >= 0 THEN FDiv(x, Fin(1, BPow10(FracDigits + e)))
                        ELSE FMul(x, Fin(1, BPow10(FracDigits - e)))
        r1 == LogReduz(<<y, Zero>>, Dec(8, 0), FMul(Dec(3, 0), LN2), 800)
        r2 == LogReduz(r1, Dec(4, 0), FMul(Dec(2, 0), LN2), 400)
        r3 == LogReduz(r2, Dec(2, 0), LN2, 200)
        r4 == LogReduz(r3, Dec(15, 1), LN1_5, 150)
        r5 == LogReduz(r4, Dec(125, 2), LN1_25, 125)
        t  == FDiv(FSub(r5[1], One), FAdd(r5[1], One))
        sr == LogSerie(FMul(t, t), [k |-> 0, pot |-> t, acc |-> Zero])
        le == IF e >= 0 THEN FMul(Dec(e, 0), LN10) ELSE FNeg(FMul(Dec(-e, 0), LN10))
    IN  FAdd(FAdd(FMul(Dec(2, 0), sr), r5[2]), le)

\* log(0) = -inf, log(x < 0) = nan, log(inf) = inf: warnings, no exception.
FLog(x) ==
    IF IsNaN(x) THEN NaN
    ELSE IF x.k = "inf" THEN (IF x.s > 0 THEN x ELSE NaN)
    ELSE IF x.s = 0 THEN Inf(-1)
    ELSE IF x.s < 0 THEN NaN
    ELSE LogPositivo(x)

\* exp, for the power operator.  On a finite y: |y| = n * ln 2 + r with
\* 0 <= r < ln 2, e^r = 1 + r + r^2/2! + ... summed to ExpTermos terms (the
\* rest being below the unit), e^|y| = 2^n * e^r, and e^-|y| its reciprocal.
\* Beyond n = Base the result is outside binary64: inf, or 0.
ExpTermos == 16

\* The integer part of a finite float below Base^3 in magnitude.
FTruncInt(x) ==
    LET d == BDrop(x.m, FracLimbs)
    IN  Limb(d, 1) + Base * Limb(d, 2) + Base * Base * Limb(d, 3)

\* The element of a one-element set.  Unico({ e(x) : x \in {a} }) is e(a)
\* with a evaluated once, before e, as an assignment to a local does.
Unico(S) == CHOOSE v \in S : TRUE

\* 2^n as a float.
RECURSIVE FPow2(_)
FPow2(n) ==
    IF n < 30 THEN Dec(2^n, 0)
    ELSE Unico({ FMul(Dec(2^29, 0), h) : h \in {FPow2(n - 29)} })

ExpStep(r, st) ==
    [k |-> st.k + 1, acc |-> FAdd(st.acc, st.termo),
     termo |-> FDiv(FMul(st.termo, r), Dec(st.k + 1, 0))]

RECURSIVE ExpSerie(_, _)
ExpSerie(r, st) ==
    Unico({ IF x.k = ExpTermos THEN x.acc ELSE ExpSerie(r, ExpStep(r, x)) :
              x \in {st} })

\* e^a for a > 0 with a / ln 2 = q.
ExpReduzido(a, q) ==
    IF Len(q.m) > FracLimbs + 1 THEN Inf(1)
    ELSE Unico({ FMul(FPow2(FTruncInt(q)),
                      ExpSerie(r, [k |-> 0, acc |-> Zero, termo |-> One])) :
                   r \in {FSub(a, FMul(Dec(FTruncInt(q), 0), LN2))} })

FExp(y) ==
    IF IsNaN(y) THEN NaN
    ELSE IF y.k = "inf" THEN (IF y.s > 0 THEN y ELSE Zero)
    ELSE IF y.s = 0 THEN One
    ELSE Unico({ IF y.s > 0 THEN p ELSE FDiv(One, p) :
                   p \in { ExpReduzido(FAbs(y), q) : q \in {FDiv(FAbs(y), LN2)} } })

\* x ** p for a base x > 0, the only bases the program raises to a power
\* (gilliland_N clamps X to [1e-6, 0.999999], oconnell_eta rejects
\* alpha_mu <= 0): exp(p * ln x).  A nan base gives nan.
FPow(x, p) == Unico({ FExp(y) : y \in { FMul(p, l) : l \in {FLog(x)} } })

\* np.sqrt.  On a finite x > 0 the integer square root of the magnitude
\* scaled by 10^12, by Newton's iteration from a power of Base above it.
RECURSIVE BSqrtDe(_, _)
BSqrtDe(n, x) ==
    Unico({ IF BCmp(y, x) >= 0 THEN x ELSE BSqrtDe(n, y) :
              y \in {BDiv(BAdd(x, BDiv(n, x)), <<2>>)} })

BSqrt(n) == BSqrtDe(n, [i \in 1..((Len(n) + 1) \div 2) |-> 0] \o <<1>>)

\* sqrt(x < 0) = nan: a warning, no exception.
FSqrt(x) ==
    IF IsNaN(x) THEN NaN
    ELSE IF x.k = "inf" THEN (IF x.s > 0 THEN x ELSE NaN)
    ELSE IF x.s = 0 THEN Zero
    ELSE IF x.s < 0 THEN NaN
    ELSE Fin(1, Rounded(BSqrt(BShift(x.m, FracLimbs))))

\* The float of an integer below Base^3 in magnitude.
FInt(n) == Dec(n, 0)

\* math.ceil of a finite float below Base^3 in magnitude, an integer.
Ceil(x) ==
    IF x.s > 0
    THEN FTruncInt(x) + (IF \E i \in 1..FracLimbs : Limb(x.m, i) # 0 THEN 1 ELSE 0)
    ELSE -FTruncInt(x)

\* ------------------------------------------------------------------------
\* Calls: a call returns a value or raises an exception.
\* ------------------------------------------------------------------------
None == [k |-> "none"]
\* An exception: its class, its message, and the values formatted into the
\* message.
Exc(type, msg, dados) == [type |-> type, msg |-> msg, dados |-> dados]
Return(v) == [raised |-> None, value |-> v]
Raise(e) == [raised |-> e, value |-> None]

\* ------------------------------------------------------------------------
\* especificacao.py
\* ------------------------------------------------------------------------
N_COMPONENTES == 5
LK_index == 2
HK_index == 3

\* Recoveries in the distillate, n-C5 .. n-C10.
R_D == <<Dec(999, 3), Dec(995, 3), Dec(60, 2), Dec(5, 2), Dec(1, 3)>>

vazao_destilado_mut(Fi, Ri) == FMul(Fi, FSub(One, Ri))
vazao_destilado(Fi, Ri) == FMul(Fi, Ri)

vazao_fundo_mut(Fi, Di) == FSub(Di, Fi)
vazao_fundo(Fi, Di) == FSub(Fi, Di)

composicao_mut(vazoes, total) == [i \in 1..Len(vazoes) |-> FDiv(vazoes[i], Dec(100, 0))]
composicao(vazoes, total) == [i \in 1..Len(vazoes) |-> FDiv(vazoes[i], total)]

\* LK_index and HK_index of the result count from 0, as in the program.
definir_especificacao_por_recuperacoes(F, z) ==
    LET n   == Len(z)
        F_i == [i \in 1..n |-> FMul(F, z[i])]
        D_i == [i \in 1..n |-> vazao_destilado(F_i[i], R_D[i])]
        B_i == [i \in 1..n |-> vazao_fundo(F_i[i], D_i[i])]
        D   == FSum(D_i)
        B   == FSum(B_i)
    IN  IF n # N_COMPONENTES
        THEN Raise(Exc("ValueError", "Esta funcao espera exatamente 5 componentes (n-C5, n-C6, n-C7, n-C9, n-C10).", <<>>))
        ELSE IF Len(R_D) # n
        THEN Raise(Exc("ValueError", "Tamanho de R_D incompativel com z.", <<>>))
        ELSE IF PyDivRaises(D_i[1], D) \/ PyDivRaises(B_i[1], B)
        THEN Raise(Exc("ZeroDivisionError", "float division by zero", <<>>))
        ELSE Return([F |-> F, zF |-> z, F_i |-> F_i, D |-> D, B |-> B,
                     D_i |-> D_i, B_i |-> B_i,
                     xD |-> composicao(D_i, D), xB |-> composicao(B_i, B),
                     R_D |-> R_D, LK_index |-> LK_index, HK_index |-> HK_index])

\* ------------------------------------------------------------------------
\* main.py: the feed and its check
\* ------------------------------------------------------------------------
MaxF == 1
ZSteps == 2

Vec(ns, d) == [i \in 1..Len(ns) |-> Dec(ns[i], d)]

\* The design case of definir_alimentacao.
F_EXEMPLO == Dec(1000, 0)
Z_EXEMPLO == Vec(<<5, 10, 25, 30, 30>>, 2)
FRACAO_VAPOR == Dec(20, 2)
P_ATM == Dec(2, 0)

\* The compositions k / ZSteps of five components, computed as floats.
ZGrid ==
    { [i \in 1..5 |-> FDiv(Dec(k[i], 0), Dec(ZSteps, 0))] :
        k \in { t \in [1..5 -> 0..ZSteps] :
                  t[1] + t[2] + t[3] + t[4] + t[5] = ZSteps } }

\* Further feeds: sums of 1.0001, 0.9, 1.0000005 and 0.9999995, a sum just
\* beyond the tolerance, four components summing to 1, and a feed of heavy
\* key with a trace of light key.
Z_1_0001 == Vec(<<500, 1000, 2500, 3000, 3001>>, 4)
Z_TRACO_LK == Vec(<<0, 0, 2, 999998, 0>>, 6)
ZOutros ==
    { Z_1_0001, Z_TRACO_LK,
      Vec(<<5, 10, 25, 30, 20>>, 2),
      Vec(<<500000, 1000000, 2500000, 3000000, 3000005>>, 7),
      Vec(<<500000, 1000000, 2500000, 3000000, 2999995>>, 7),
      Vec(<<500000, 1000000, 2500000, 3000000, 3000011>>, 7),
      Vec(<<25, 25, 25, 25>>, 2) }

ZCases == {Z_EXEMPLO} \cup ZGrid \cup ZOutros
FCases == {F_EXEMPLO} \cup { Dec(k, 0) : k \in 0..MaxF }

TOL_COMPOSICAO == Dec(1, 6)

check_composicao_mut(zz, tol) == Return(FSum(zz))
check_composicao(zz, tol) ==
    LET soma == FSum(zz)
    IN  IF FGt(FAbs(FSub(soma, One)), tol)
        THEN Raise(Exc("ValueError", "Soma das fracoes molares z = {soma:.6f} (nao e 1.0)", <<soma>>))
        ELSE Return(soma)

\* ------------------------------------------------------------------------
\* fug.py: Fenske
\* ------------------------------------------------------------------------
\* Lines 16-24; i_LK and i_HK count from 0.  The operands are numpy floats.
fenske_Nmin(xD, xB, i_LK, i_HK, alpha) ==
    LET alpha_LKHK == FDiv(alpha[i_LK + 1], alpha[i_HK + 1])
        num == FMul(FDiv(xD[i_LK + 1], xD[i_HK + 1]), FDiv(xB[i_HK + 1], xB[i_LK + 1]))
    IN  FDiv(FLog(num), FLog(alpha_LKHK))

\* ------------------------------------------------------------------------
\* fug.py: Underwood
\* ------------------------------------------------------------------------
TOL == Dec(1, 10)
max_iter == 100
MARGEM == Dec(1, 6)

\* alpha * zF / (alpha - theta), elementwise.
termos_underwood(theta, alpha, zF) ==
    [i \in 1..Len(alpha) |-> FDiv(FMul(alpha[i], zF[i]), FSub(alpha[i], theta))]

underwood_balance(theta, alpha, zF, q_liq) ==
    FSub(FSum(termos_underwood(theta, alpha, zF)), FSub(One, q_liq))

\* The frame of a call of solve_underwood_theta: its locals, the number of
\* loop iterations begun (it), and how it has ended, if it has.
\* a = [alpha, zF, q_liq, i_HK, i_LK, tol, max_iter], the indices from 0.
UWFrame0 ==
    [pc |-> "entry", lo |-> None, hi |-> None, f_lo |-> None, f_hi |-> None,
     mid |-> None, f_mid |-> None, it |-> 0, ret |-> None, exc |-> None]

MSG_SEM_SINAL ==
    "Underwood: nao achei intervalo com mudanca de sinal. Verifique alpha, zF, q_liq e os indices de LK/HK."
MSG_NAO_CONVERGIU ==
    "Underwood: bisseccao nao convergiu dentro do numero maximo de iteracoes."

sem_mudanca_de_sinal_mut(f_lo, f_hi) == FALSE
sem_mudanca_de_sinal(f_lo, f_hi) == FGt(FMul(f_lo, f_hi), Zero)

\* Lines 53-62: the bracket and the sign test.
uw_entry(a, fr) ==
    LET lo   == FAdd(a.alpha[a.i_HK + 1], MARGEM)
        hi   == FSub(a.alpha[a.i_LK + 1], MARGEM)
        f_lo == underwood_balance(lo, a.alpha, a.zF, a.q_liq)
        f_hi == underwood_balance(hi, a.alpha, a.zF, a.q_liq)
        fr1  == [fr EXCEPT !.lo = lo, !.hi = hi, !.f_lo = f_lo, !.f_hi = f_hi]
    IN  IF sem_mudanca_de_sinal(f_lo, f_hi)
        THEN [fr1 EXCEPT !.pc = "raised",
                         !.exc = Exc("ValueError", MSG_SEM_SINAL, <<>>)]
        ELSE [fr1 EXCEPT !.pc = "loop"]

convergiu_mut(f_mid, tol) == FLe(FAbs(f_mid), Dec(1, 3))
convergiu(f_mid, tol) == FLt(FAbs(f_mid), tol)

ponto_medio_mut(lo, hi) == FMul(Dec(25, 2), FAdd(lo, hi))
ponto_medio(lo, hi) == FMul(Dec(5, 1), FAdd(lo, hi))

\* Lines 64-72: one iteration of the loop body.
uw_iter(a, fr) ==
    LET mid   == ponto_medio(fr.lo, fr.hi)
        f_mid == underwood_balance(mid, a.alpha, a.zF, a.q_liq)
        fr1   == [fr EXCEPT !.mid = mid, !.f_mid = f_mid, !.it = fr.it + 1]
    IN  IF convergiu(f_mid, a.tol)
        THEN [fr1 EXCEPT !.pc = "returned", !.ret = mid]
        ELSE IF FLt(FMul(fr.f_lo, f_mid), Zero)
             THEN [fr1 EXCEPT !.hi = mid, !.f_hi = f_mid]
             ELSE [fr1 EXCEPT !.lo = mid, !.f_lo = f_mid]

\* Line 74: the loop has run max_iter times without returning.
uw_exhausted(a, fr) ==
    [fr EXCEPT !.pc = "raised", !.exc = Exc("RuntimeError", MSG_NAO_CONVERGIU, <<>>)]

iteracoes_esgotadas_mut(a, fr) == fr.it >= a.max_iter + 1
iteracoes_esgotadas(a, fr) == fr.it >= a.max_iter

\* The arguments of underwood_RRmin, and those it hands to
\* solve_underwood_theta with the default tol and max_iter.
UWArgs(alpha, xD, zF, q_liq, i_LK, i_HK) ==
    [alpha |-> alpha, xD |-> xD, zF |-> zF, q_liq |-> q_liq,
     i_LK |-> i_LK, i_HK |-> i_HK, tol |-> TOL, max_iter |-> max_iter]

\* Lines 94-95 of underwood_RRmin: RR_min from the theta found.
RR_min(alpha, xD, theta) == FSub(FSum(termos_underwood(theta, alpha, xD)), One)

ALPHA == Vec(<<30, 23, 18, 13, 10>>, 1)

\* ------------------------------------------------------------------------
\* Actions of a call of underwood_RRmin: solve_underwood_theta one step per
\* loop iteration, then the return.  An exception leaves the call and, there
\* being no handler in the program, ends the run.
\* ------------------------------------------------------------------------
UWEnter ==
    /\ pc = "underwood_RRmin" /\ frame.pc = "entry"
    /\ frame' = uw_entry(uw, frame)
    /\ exc' = frame'.exc
    /\ pc' = IF frame'.pc = "raised" THEN "raised" ELSE pc
    /\ UNCHANGED <<feed, spec, fug, ran, uw, call, res>>

UWIterate ==
    /\ pc = "underwood_RRmin" /\ frame.pc = "loop"
    /\ ~iteracoes_esgotadas(uw, frame)
    /\ frame' = uw_iter(uw, frame)
    /\ UNCHANGED <<pc, feed, spec, fug, ran, exc, uw, call, res>>

UWExhausted ==
    /\ pc = "underwood_RRmin" /\ frame.pc = "loop"
    /\ iteracoes_esgotadas(uw, frame)
    /\ frame' = uw_exhausted(uw, frame)
    /\ exc' = frame'.exc
    /\ pc' = "raised"
    /\ UNCHANGED <<feed, spec, fug, ran, uw, call, res>>

UWReturn ==
    /\ pc = "underwood_RRmin" /\ frame.pc = "returned"
    /\ fug' = [fug EXCEPT !.RR_min = RR_min(uw.alpha, uw.xD, frame.ret),
                          !.theta = frame.ret]
    /\ pc' = "gilliland_N"
    /\ UNCHANGED <<feed, spec, ran, exc, uw, frame, call, res>>

NextUW == UWEnter \/ UWIterate \/ UWExhausted \/ UWReturn

\* ------------------------------------------------------------------------
\* SpecUW: calls of underwood_RRmin.
\* ------------------------------------------------------------------------
MaxQ == 1

FUG0 == [Nmin |-> None, RR_min |-> None, theta |-> None]

\* Feed compositions; keys (i_LK, i_HK) with the light key the more volatile,
\* adjacent or not; liquid fractions 0.8 (the design case) and 0 .. MaxQ.
UWZ == {Z_EXEMPLO, Vec(<<0, 0, 50, 50, 0>>, 2), Vec(<<50, 50, 0, 0, 0>>, 2)}
UWKeys == {<<2, 3>>, <<1, 3>>, <<0, 4>>}
UWQ == {FSub(One, FRACAO_VAPOR)} \cup { Dec(k, 0) : k \in 0..MaxQ }
UWCases ==
    { UWArgs(ALPHA, zz, zz, q, ky[1], ky[2]) : zz \in UWZ, q \in UWQ, ky \in UWKeys }

InitUW ==
    /\ pc = "underwood_RRmin"
    /\ uw \in UWCases
    /\ frame = UWFrame0
    /\ fug = FUG0
    /\ feed = None /\ spec = None /\ ran = <<>> /\ exc = None
    /\ call = None /\ res = None

SpecUW == InitUW /\ [][NextUW]_vars

\* ------------------------------------------------------------------------
\* Spec: main() from the feed to the FUG stages, one action per call.  ran
\* lists the calls begun; an exception ends the run, main having no handler.
\* The feed is what definir_alimentacao may be edited to return.
\* ------------------------------------------------------------------------
Feeds ==
    { [F |-> F, z |-> zz, q_liq |-> FSub(One, FRACAO_VAPOR), P |-> P_ATM,
       fracao_vapor |-> FRACAO_VAPOR] : F \in FCases, zz \in ZCases }

Init ==
    /\ pc = "check_composicao"
    /\ feed \in Feeds
    /\ spec = None /\ fug = FUG0 /\ ran = <<>> /\ exc = None
    /\ uw = None /\ frame = UWFrame0 /\ call = None /\ res = None

\* main.py line 57.
MainCheckComposicao ==
    /\ pc = "check_composicao"
    /\ LET r == check_composicao(feed.z, TOL_COMPOSICAO)
       IN  /\ exc' = r.raised
           /\ pc' = IF r.raised # None THEN "raised"
                    ELSE "definir_especificacao_por_recuperacoes"
    /\ ran' = Append(ran, "check_composicao")
    /\ UNCHANGED <<feed, spec, fug, uw, frame, call, res>>

\* main.py line 68.
MainEspecificacao ==
    /\ pc = "definir_especificacao_por_recuperacoes"
    /\ LET r == definir_especificacao_por_recuperacoes(feed.F, feed.z)
       IN  /\ exc' = r.raised
           /\ spec' = r.value
           /\ pc' = IF r.raised # None THEN "raised" ELSE "fenske_Nmin"
    /\ ran' = Append(ran, "definir_especificacao_por_recuperacoes")
    /\ UNCHANGED <<feed, fug, uw, frame, call, res>>

\* main.py lines 94-100.
MainFenske ==
    /\ pc = "fenske_Nmin"
    /\ fug' = [fug EXCEPT !.Nmin =
                  fenske_Nmin(spec.xD, spec.xB, spec.LK_index, spec.HK_index, ALPHA)]
    /\ pc' = "main_underwood_RRmin"
    /\ ran' = Append(ran, "fenske_Nmin")
    /\ UNCHANGED <<feed, spec, exc, uw, frame, call, res>>

\* main.py line 104: the call of underwood_RRmin.
MainUnderwood ==
    /\ pc = "main_underwood_RRmin"
    /\ uw' = UWArgs(ALPHA, spec.xD, spec.zF, feed.q_liq, spec.LK_index, spec.HK_index)
    /\ frame' = UWFrame0
    /\ pc' = "underwood_RRmin"
    /\ ran' = Append(ran, "underwood_RRmin")
    /\ UNCHANGED <<feed, spec, fug, exc, call, res>>

Next ==
    \/ MainCheckComposicao
    \/ MainEspecificacao
    \/ MainFenske
    \/ MainUnderwood
    \/ UWEnter
    \/ UWIterate
    \/ UWExhausted
    \/ UWReturn

Spec == Init /\ [][Next]_vars

\* ------------------------------------------------------------------------
\* dimensionamento_pratos.py: massa_molar_media.  A string is the sequence
\* of its characters; a Componente is [indice, codigo_prof, nome, MM], MM a
\* float or None.
\* ------------------------------------------------------------------------
MAIUSCULAS ==
    <<"A", "B", "C", "D", "E", "F", "G", "H", "I", "J", "K", "L", "M",
      "N", "O", "P", "Q", "R", "S", "T", "U", "V", "W", "X", "Y", "Z">>
MINUSCULAS ==
    <<"a", "b", "c", "d", "e", "f", "g", "h", "i", "j", "k", "l", "m",
      "n", "o", "p", "q", "r", "s", "t", "u", "v", "w", "x", "y", "z">>

\* str.lower() on the letters A-Z.
lower(str) ==
    [i \in 1..Len(str) |->
        IF \E j \in 1..26 : MAIUSCULAS[j] = str[i]
        THEN MINUSCULAS[CHOOSE j \in 1..26 : MAIUSCULAS[j] = str[i]]
        ELSE str[i]]

\* sub in str.
contem(sub, str) ==
    \E i \in 0..(Len(str) - Len(sub)) : SubSeq(str, i + 1, i + Len(sub)) = sub

\* The if / elif chain of lines 30-39, in its order.
MM_TIPICA ==
    << [chave |-> <<"p", "e", "n", "t", "a", "n", "o">>, MM |-> Dec(7215, 2)],
       [chave |-> <<"h", "e", "x", "a", "n", "o">>, MM |-> Dec(8618, 2)],
       [chave |-> <<"h", "e", "p", "t", "a", "n", "o">>, MM |-> Dec(10021, 2)],
       [chave |-> <<"n", "o", "n", "a", "n", "o">>, MM |-> Dec(12826, 2)],
       [chave |-> <<"d", "e", "c", "a", "n", "o">>, MM |-> Dec(14229, 2)] >>

mm_fallback(nome) ==
    LET achados == { i \in 1..Len(MM_TIPICA) : contem(MM_TIPICA[i].chave, lower(nome)) }
    IN  IF achados = {}
        THEN Raise(Exc("ValueError", "Sem MM para componente {c.nome}", <<nome>>))
        ELSE Return(MM_TIPICA[CHOOSE i \in achados : \A j \in achados : i <= j].MM)

mm_presente_mut(c) == c.MM # None
mm_presente(c) == c.MM # None /\ ~IsNaN(c.MM)

mm_do_componente(c) == IF mm_presente(c) THEN Return(c.MM) ELSE mm_fallback(c.nome)

\* x_arr * mm_arr: elementwise, an array of one element being broadcast.
produto_arrays(x, mm) ==
    IF Len(x) = Len(mm) THEN Return([i \in 1..Len(x) |-> FMul(x[i], mm[i])])
    ELSE IF Len(x) = 1 THEN Return([i \in 1..Len(mm) |-> FMul(x[1], mm[i])])
    ELSE IF Len(mm) = 1 THEN Return([i \in 1..Len(x) |-> FMul(x[i], mm[1])])
    ELSE Raise(Exc("ValueError", "operands could not be broadcast together", <<>>))

\* The loop of lines 24-42 stops at the first component without a molar mass.
massa_molar_media_de(x, mms) ==
    LET falhas == { i \in 1..Len(mms) : mms[i].raised # None }
        prod == produto_arrays(x, [i \in 1..Len(mms) |-> mms[i].value])
    IN  IF falhas # {}
        THEN Raise(mms[CHOOSE i \in falhas : \A j \in falhas : i <= j].raised)
        ELSE IF prod.raised # None THEN prod
        ELSE Return(FSum(prod.value))

massa_molar_media(x, comps) ==
    Unico({ massa_molar_media_de(x, mms) :
              mms \in {[i \in 1..Len(comps) |-> mm_do_componente(comps[i])]} })

\* componentes.py: _none_if_nan on a cell of the table: None, a float, or a
\* string [k |-> "str", txt |-> characters].  The strings drawn here are
\* blank or no number, so float(valor) raises ValueError on them.
Texto(txt) == [k |-> "str", txt |-> txt]
em_branco(txt) == \A i \in 1..Len(txt) : txt[i] \in {" ", "\t", "\n"}

none_if_nan(valor) ==
    IF valor = None THEN None
    ELSE IF valor.k = "str" /\ em_branco(valor.txt) THEN None
    ELSE IF valor.k = "str" THEN None    \* float(valor) raised ValueError
    ELSE IF IsNaN(valor) THEN None
    ELSE valor

\* SpecMassaMolar: calls of massa_molar_media on the design distillate and a
\* registry of n-pentane .. n-decane (settings.COMP_MAP gives their
\* codigo_prof).  A component's MM is loaded from a cell holding a number
\* ("csv"), nan as an empty cell is read ("vazia"), None or a blank string
\* ("branco"), or is set to nan in the registry itself ("nan"); at most
\* MaxAusentes cells hold no number.  The fifth row may instead be a
\* component the fallback does not know.
MaxAusentes == 2
N_PENTANO == <<"n", "-", "P", "e", "n", "t", "a", "n", "o">>
N_HEXANO == <<"n", "-", "H", "e", "x", "a", "n", "o">>
N_HEPTANO == <<"n", "-", "H", "e", "p", "t", "a", "n", "o">>
N_NONANO == <<"N", "-", "N", "O", "N", "A", "N", "O">>
N_DECANO == <<"n", "-", "d", "e", "c", "a", "n", "o">>
AGUA == <<"A", "g", "u", "a">>
NOMES == <<N_PENTANO, N_HEXANO, N_HEPTANO, N_NONANO, N_DECANO>>
CODIGOS == <<5, 6, 7, 9, 10>>
MM_CSV == Vec(<<7200, 8600, 10000, 12800, 14200>>, 2)

Componente(indice, codigo_prof, nome, MM) ==
    [indice |-> indice, codigo_prof |-> codigo_prof, nome |-> nome, MM |-> MM]

\* The registry whose MM cells are as est says, the fifth row water if agua.
Registro(est, agua) ==
    [i \in 1..5 |->
        Componente(i,
                   IF agua /\ i = 5 THEN 0 ELSE CODIGOS[i],
                   IF agua /\ i = 5 THEN AGUA ELSE NOMES[i],
                   IF est[i] = "nan" THEN NaN
                   ELSE none_if_nan(
                          IF est[i] = "none" THEN None
                          ELSE IF est[i] = "vazia" THEN NaN
                          ELSE IF est[i] = "branco" THEN Texto(<<" ", " ">>)
                          ELSE IF agua /\ i = 5 THEN Dec(1802, 2) ELSE MM_CSV[i]))]

Celulas ==
    { e \in [1..5 -> {"csv", "vazia", "none", "branco", "nan"}] :
        Cardinality({ i \in 1..5 : e[i] # "csv" }) <= MaxAusentes }

XD_EXEMPLO == definir_especificacao_por_recuperacoes(F_EXEMPLO, Z_EXEMPLO).value.xD

InitMassaMolar ==
    /\ pc = "massa_molar_media"
    /\ \E est \in Celulas, agua \in BOOLEAN :
          call = [x |-> XD_EXEMPLO, celulas |-> est, comps |-> Registro(est, agua)]
    /\ res = None
    /\ feed = None /\ spec = None /\ fug = FUG0 /\ ran = <<>> /\ exc = None
    /\ uw = None /\ frame = UWFrame0

MassaMolarCall ==
    /\ pc = "massa_molar_media"
    /\ res' = massa_molar_media(call.x, call.comps)
    /\ exc' = res'.raised
    /\ pc' = IF res'.raised = None THEN "returned" ELSE "raised"
    /\ UNCHANGED <<feed, spec, fug, ran, uw, frame, call>>

NextMassaMolar == MassaMolarCall

SpecMassaMolar == InitMassaMolar /\ [][NextMassaMolar]_vars

\* ------------------------------------------------------------------------
\* dimensionamento_pratos.py: the internal flows of dimensionar_coluna_pratos
\* (lines 156-164), which it hands to dimensionar_secao as the liquid and
\* vapour flows of the top (L_R, V_R) and of the bottom (L_S, V_S).
\* ------------------------------------------------------------------------
L_R(RR, D_total) == FMul(RR, D_total)
V_R(RR, D_total) == FMul(FAdd(RR, One), D_total)
L_S(l_r, q_liq, F_total) == FAdd(l_r, FMul(q_liq, F_total))
V_S(v_r, q_liq, F_total) == FAdd(v_r, FMul(FSub(One, q_liq), F_total))

\* SpecPratos: calls of dimensionar_coluna_pratos on the spec of the design
\* composition, with reflux ratios k / 2 and liquid fractions k / 5.
MaxRR == 4
PratosF == {F_EXEMPLO} \cup { Dec(k, 0) : k \in 1..MaxF }
PratosRR == { Dec(5 * k, 1) : k \in 0..MaxRR }
PratosQ == { Dec(2 * k, 1) : k \in 0..5 }
PratosCases ==
    { [F |-> F, q_liq |-> q, RR |-> rr,
       spec |-> definir_especificacao_por_recuperacoes(F, Z_EXEMPLO).value] :
         F \in PratosF, q \in PratosQ, rr \in PratosRR }

InitPratos ==
    /\ pc = "dimensionar_coluna_pratos"
    /\ call \in PratosCases
    /\ res = None
    /\ feed = None /\ spec = None /\ fug = FUG0 /\ ran = <<>> /\ exc = None
    /\ uw = None /\ frame = UWFrame0

PratosFluxos ==
    /\ pc = "dimensionar_coluna_pratos"
    /\ LET D_total == call.spec.D
           F_total == call.F
           l_r == L_R(call.RR, D_total)
           v_r == V_R(call.RR, D_total)
       IN  res' = [L_R |-> l_r, V_R |-> v_r,
                   L_S |-> L_S(l_r, call.q_liq, F_total),
                   V_S |-> V_S(v_r, call.q_liq, F_total)]
    /\ pc' = "dimensionar_secao"
    /\ UNCHANGED <<feed, spec, fug, ran, exc, uw, frame, call>>

NextPratos == PratosFluxos

SpecPratos == InitPratos /\ [][NextPratos]_vars

\* ------------------------------------------------------------------------
\* fug.py: gilliland_N.  Nmin, RR and RR_min are converted to Python floats
\* (lines 108-110), so a zero divisor raises ZeroDivisionError.
\* ------------------------------------------------------------------------
\* Python's min(a, b) and max(a, b): the first argument unless the second is
\* smaller (larger).
PyMin(a, b) == IF FLt(b, a) THEN b ELSE a
PyMax(a, b) == IF FGt(b, a) THEN b ELSE a

X_MIN == Dec(1, 6)
X_MAX == Dec(999999, 6)

razao_X(RR, RRmin) == FDiv(FSub(RR, RRmin), FAdd(RR, One))

limitar_X_mut(X) == X
limitar_X(X) == PyMax(X_MIN, PyMin(X_MAX, X))

gilliland_Y(X) ==
    Unico({ FMul(Dec(75, 2), FSub(One, w)) : w \in {FPow(X, Dec(5668, 4))} })

\* Lines 117-118, with the locals X (after line 113) and Y.
gilliland_fim(Nmin, X, Y) ==
    [X |-> X, Y |-> Y,
     ret |-> IF PyDivRaises(FAdd(Nmin, Y), FSub(One, Y))
             THEN Raise(Exc("ZeroDivisionError", "float division by zero", <<>>))
             ELSE Return(FDiv(FAdd(Nmin, Y), FSub(One, Y)))]

\* The locals X and Y of a call, and how it ends.
gilliland_frame(Nmin, RR, RRmin) ==
    IF PyDivRaises(FSub(RR, RRmin), FAdd(RR, One))
    THEN [X |-> None, Y |-> None,
          ret |-> Raise(Exc("ZeroDivisionError", "float division by zero", <<>>))]
    ELSE Unico({ Unico({ gilliland_fim(Nmin, X, Y) : Y \in {gilliland_Y(X)} }) :
                   X \in {limitar_X(razao_X(RR, RRmin))} })

gilliland_N(Nmin, RR, RRmin) == gilliland_frame(Nmin, RR, RRmin).ret

\* SpecGilliland: calls of gilliland_N with N_min the design value or
\* 1 .. MaxNmin, RR_min = k / 2, and RR a multiple of RR_min (1 for
\* RR = RR_min, and the multipliers of main) or one of -1, 0 and 10^7.
MaxNmin == 2
MaxRRmin == 3
FATORES_R == <<Dec(110, 2), Dec(130, 2), Dec(150, 2), Dec(200, 2)>>
GillNmin == {Dec(10294018, 6)} \cup { Dec(k, 0) : k \in 1..MaxNmin }
GillRRmin == { Dec(5 * k, 1) : k \in 1..MaxRRmin }
GillFatores == {One} \cup { FATORES_R[i] : i \in DOMAIN FATORES_R }
GillCases ==
    { [Nmin |-> n, RR |-> FMul(f, rm), RR_min |-> rm] :
        n \in GillNmin, rm \in GillRRmin, f \in GillFatores }
    \cup { [Nmin |-> n, RR |-> rr, RR_min |-> rm] :
             n \in GillNmin, rm \in GillRRmin,
             rr \in {Dec(-1, 0), Zero, Dec(10000000, 0)} }

InitGilliland ==
    /\ pc = "gilliland_N"
    /\ call \in GillCases
    /\ res = None
    /\ feed = None /\ spec = None /\ fug = FUG0 /\ ran = <<>> /\ exc = None
    /\ uw = None /\ frame = UWFrame0

GillilandCall ==
    /\ pc = "gilliland_N" /\ res = None /\ "Nmin" \in DOMAIN call
    /\ res' = gilliland_frame(call.Nmin, call.RR, call.RR_min)
    /\ exc' = res'.ret.raised
    /\ pc' = IF res'.ret.raised = None THEN "returned" ELSE "raised"
    /\ UNCHANGED <<feed, spec, fug, ran, uw, frame, call>>

NextGilliland == GillilandCall

SpecGilliland == InitGilliland /\ [][NextGilliland]_vars

\* ------------------------------------------------------------------------
\* eficiencia.py
\* ------------------------------------------------------------------------
MU_CP == Vec(<<224, 295, 389, 665, 850>>, 3)

\* np.dot(zF_arr, mu_cP).
estimar_mu_feed_cP(zF) ==
    IF Len(zF) # 5
    THEN Raise(Exc("ValueError",
                   "zF deve ter 5 componentes (n-C5, n-C6, n-C7, n-C9, n-C10).", <<>>))
    ELSE Return(FSum([i \in 1..5 |-> FMul(zF[i], MU_CP[i])]))

alpha_mu_invalido_mut(alpha_mu) == FLt(alpha_mu, Zero)
alpha_mu_invalido(alpha_mu) == FLe(alpha_mu, Zero)

oconnell_eta(alpha_rel, mu_F_cP) ==
    Unico({ IF alpha_mu_invalido(alpha_mu)
            THEN Raise(Exc("ValueError", "alpha_rel * mu_F_cP deve ser > 0.", <<>>))
            ELSE Return(FMul(Dec(492, 3), FPow(alpha_mu, Dec(-245, 3)))) :
              alpha_mu \in {FMul(alpha_rel, mu_F_cP)} })

calcular_N_real(N_teorico, eta_G) ==
    IF FLe(eta_G, Zero)
    THEN Raise(Exc("ValueError", "eta_G deve ser > 0.", <<>>))
    ELSE Return(FDiv(N_teorico, eta_G))

\* SpecEficiencia: oconnell_eta followed, as in main (lines 125-130), by
\* calcular_N_real on the efficiency it returned; and calcular_N_real called
\* on an efficiency given.  alpha_rel is the design value 1.8 / 1.3 or
\* -1 .. MaxAlfa, mu_F_cP that of the design feed or k / 2 for k in
\* -1 .. MaxMu, eta_G one of -0.5, 0, 0.5, 1, inf and nan.
MaxAlfa == 2
MaxMu == 2
EfAlfa == {FDiv(ALPHA[LK_index + 1], ALPHA[HK_index + 1])}
              \cup { Dec(k, 0) : k \in (-1)..MaxAlfa }
EfMu == {estimar_mu_feed_cP(Z_EXEMPLO).value}
            \cup { Dec(5 * k, 1) : k \in (-1)..MaxMu }
EfEta == {Dec(-5, 1), Zero, Dec(5, 1), One, Inf(1), NaN}
EfCases ==
    { [alpha_rel |-> al, mu_F_cP |-> mu, N_teorico |-> n] :
        al \in EfAlfa, mu \in EfMu, n \in GillNmin }

InitEficiencia ==
    /\ call \in EfCases
    /\ \/ pc = "oconnell_eta" /\ res = [eta_G |-> None, N_real |-> None]
       \/ /\ pc = "calcular_N_real"
          /\ call.alpha_rel = One /\ call.mu_F_cP = Dec(5, 1)
          /\ \E eta \in EfEta : res = [eta_G |-> eta, N_real |-> None]
    /\ ran = <<>> /\ exc = None
    /\ feed = None /\ spec = None /\ fug = FUG0 /\ uw = None /\ frame = UWFrame0

OConnellCall ==
    /\ pc = "oconnell_eta"
    /\ LET r == oconnell_eta(call.alpha_rel, call.mu_F_cP)
       IN  /\ res' = [res EXCEPT !.eta_G = r.value]
           /\ exc' = r.raised
           /\ pc' = IF r.raised = None THEN "calcular_N_real" ELSE "raised"
    /\ ran' = Append(ran, "oconnell_eta")
    /\ UNCHANGED <<feed, spec, fug, uw, frame, call>>

NRealCall ==
    /\ pc = "calcular_N_real"
    /\ LET r == calcular_N_real(call.N_teorico, res.eta_G)
       IN  /\ res' = [res EXCEPT !.N_real = r.value]
           /\ exc' = r.raised
           /\ pc' = IF r.raised = None THEN "returned" ELSE "raised"
    /\ ran' = Append(ran, "calcular_N_real")
    /\ UNCHANGED <<feed, spec, fug, uw, frame, call>>

NextEficiencia == OConnellCall \/ NRealCall

SpecEficiencia == InitEficiencia /\ [][NextEficiencia]_vars

\* ------------------------------------------------------------------------
\* dimensionamento_pratos.py: dimensionar_secao, altura_coluna and the whole
\* of dimensionar_coluna_pratos.  Each local is computed once; the flows are
\* numpy floats when RR is, the densities Python floats.
\* ------------------------------------------------------------------------
R_GAS == Dec(8314, 3)
PI == Fin(1, <<589, 653, 592, 141, 3>>)
FRAC_FLOOD == Dec(75, 2)
FRAC_AREA_ATIVA == Dec(80, 2)
C_CAPACIDADE == Dec(15, 2)

\* Lines 101-108 and the SecaoPratos returned.
secao_area(nome, L, V, MW, rho_vap, rho_liq, u_flood, u_op) ==
    Unico({ Return([nome |-> nome, L_kmol_h |-> L, V_kmol_h |-> V, MW_vap |-> MW,
                    rho_vap |-> rho_vap, rho_liq |-> rho_liq,
                    u_flood |-> u_flood, u_op |-> u_op,
                    A_ativa |-> A_ativa,
                    A_total |-> FDiv(A_ativa, FRAC_AREA_ATIVA),
                    D |-> FSqrt(FDiv(FMul(Dec(4, 0), FDiv(A_ativa, FRAC_AREA_ATIVA)),
                                     PI))]) :
              A_ativa \in {FDiv(FDiv(FDiv(FMul(V, MW), Dec(3600, 0)), rho_vap), u_op)} })

\* Lines 97-98.
secao_velocidade(nome, L, V, MW, rho_vap, rho_liq) ==
    IF PyDivRaises(FSub(rho_liq, rho_vap), rho_vap)
    THEN Raise(Exc("ZeroDivisionError", "float division by zero", <<>>))
    ELSE Unico({ secao_area(nome, L, V, MW, rho_vap, rho_liq,
                            u_flood, FMul(FRAC_FLOOD, u_flood)) :
                   u_flood \in {FMul(C_CAPACIDADE,
                                     FSqrt(FDiv(FSub(rho_liq, rho_vap), rho_vap)))} })

dimensionar_secao(nome, L_kmol_h, V_kmol_h, x_vap, comps, P_atm, T_K, rho_L_assumida) ==
    Unico({ IF mw.raised # None THEN mw
            ELSE Unico({ secao_velocidade(nome, L_kmol_h, V_kmol_h, mw.value,
                                          rho_vap, rho_L_assumida) :
                           rho_vap \in {FDiv(FMul(FMul(P_atm, Dec(101325, 0)),
                                                  FDiv(mw.value, Dec(1000, 0))),
                                             FMul(R_GAS, T_K))} }) :
              mw \in {massa_molar_media(x_vap, comps)} })

ESPACAMENTO == Dec(5, 1)
ALTURA_EXTRA == Dec(4, 0)

altura_coluna(N_pratos) ==
    [H_ativa |-> FMul(FInt(N_pratos - 1), ESPACAMENTO),
     H_total |-> FAdd(FMul(FInt(N_pratos - 1), ESPACAMENTO), ALTURA_EXTRA)]

\* Lines 190-202, the two sections sized.
coluna_de(N_pratos, sec_topo, sec_fundo) ==
    IF sec_topo.raised # None THEN sec_topo
    ELSE IF sec_fundo.raised # None THEN sec_fundo
    ELSE Return([N_pratos |-> N_pratos,
                 H_ativa |-> altura_coluna(N_pratos).H_ativa,
                 H_total |-> altura_coluna(N_pratos).H_total,
                 diametro |-> PyMax(sec_topo.value.D, sec_fundo.value.D),
                 sec_topo |-> sec_topo.value, sec_fundo |-> sec_fundo.value])

dimensionar_coluna_pratos(N_pratos, F, q_liq, sp, RR, comps, P_atm) ==
    Unico({ coluna_de(N_pratos, sec_topo,
                      IF sec_topo.raised # None THEN sec_topo
                      ELSE Unico({ sec_fundo : sec_fundo \in {
                             dimensionar_secao("fundo",
                                 L_S(L_R(RR, sp.D), q_liq, F),
                                 V_S(V_R(RR, sp.D), q_liq, F),
                                 sp.xB, comps, P_atm, Dec(430, 0), Dec(700, 0))} })) :
              sec_topo \in {dimensionar_secao("topo", L_R(RR, sp.D), V_R(RR, sp.D),
                                              sp.xD, comps, P_atm,
                                              Dec(370, 0), Dec(650, 0))} })

\* ------------------------------------------------------------------------
\* main.py: the sweep over reflux ratios (lines 233-254).  amb holds main's
\* variables: the objects and values every iteration reads, and the
\* variables the loop body assigns.
\* ------------------------------------------------------------------------
COMPARTILHADAS == {"spec", "comps", "Nmin", "RR_min", "eta_G", "F", "q_liq", "P"}

\* math.ceil raises on nan and on an infinity.
ceil_raises(x) ==
    IF IsNaN(x) THEN Exc("ValueError", "cannot convert float NaN to integer", <<>>)
    ELSE IF x.k = "inf"
         THEN Exc("OverflowError", "cannot convert float infinity to integer", <<>>)
    ELSE None

\* Lines 239-249, Nteo_test and N_real_test computed.
sweep_dimensionar(amb, fR, RR_test, Nteo_test, N_real_test) ==
    IF ceil_raises(N_real_test) # None THEN Raise(ceil_raises(N_real_test))
    ELSE Unico({ IF sz.raised # None THEN sz
                 ELSE Return([fR |-> fR, RR_test |-> RR_test,
                              Nteo_test |-> Nteo_test, N_real_test |-> N_real_test,
                              N_pratos_test |-> Ceil(N_real_test),
                              sizing_test |-> sz.value]) :
                   sz \in {dimensionar_coluna_pratos(Ceil(N_real_test), amb.F,
                               amb.q_liq, amb.spec, RR_test, amb.comps, amb.P)} })

\* Lines 236-249: what one iteration computes, from what it reads in amb.
sweep_corpo(amb, fR) ==
    Unico({ Unico({ IF nt.raised # None THEN nt
                    ELSE Unico({ IF nr.raised # None THEN nr
                                 ELSE sweep_dimensionar(amb, fR, RR_test,
                                                        nt.value, nr.value) :
                                   nr \in {calcular_N_real(nt.value, amb.eta_G)} }) :
                      nt \in {gilliland_N(amb.Nmin, RR_test, amb.RR_min)} }) :
              RR_test \in {FMul(fR, amb.RR_min)} })

\* The assignments of one iteration: the loop variable and the five _test
\* variables, nothing else.
atribuir_iteracao_mut(amb, loc) ==
    [amb EXCEPT !.fR = loc.fR, !.RR_test = loc.RR_test,
                !.Nteo_test = loc.Nteo_test, !.N_real_test = loc.N_real_test,
                !.N_pratos_test = loc.N_pratos_test,
                !.sizing_test = loc.sizing_test, !.RR_min = loc.RR_test]
atribuir_iteracao(amb, loc) ==
    [amb EXCEPT !.fR = loc.fR, !.RR_test = loc.RR_test,
                !.Nteo_test = loc.Nteo_test, !.N_real_test = loc.N_real_test,
                !.N_pratos_test = loc.N_pratos_test,
                !.sizing_test = loc.sizing_test]

\* The row printed at lines 251-254.
linha(loc) ==
    <<loc.fR, loc.RR_test, loc.Nteo_test, loc.N_real_test, loc.N_pratos_test,
      loc.sizing_test.diametro, loc.sizing_test.H_total>>

\* SpecSweep: the loop on the design case (N_min, RR_min and eta_G to six
\* decimals), with the registry's molar masses all given or all absent, and
\* fatores_R the list of the source, its reverse, or any list of at most
\* MaxSweep distinct multipliers of it.
MaxSweep == 2
NMIN_EXEMPLO == Dec(10294018, 6)
RRMIN_EXEMPLO == Dec(3585389, 6)
ETA_EXEMPLO == Dec(516464, 6)
SPEC_EXEMPLO == definir_especificacao_por_recuperacoes(F_EXEMPLO, Z_EXEMPLO).value
SweepRegistros ==
    << Registro([i \in 1..5 |-> "csv"], FALSE),
       Registro([i \in 1..5 |-> "vazia"], FALSE) >>
SweepOrdens ==
    {<<1, 2, 3, 4>>, <<4, 3, 2, 1>>}
        \cup UNION { { o \in [1..n -> 1..4] : \A i, j \in 1..n : i # j => o[i] # o[j] } :
                       n \in 1..MaxSweep }

\* main's variables on reaching line 233 (fatores_R assigned).
Ambiente(reg, ordem) ==
    [spec |-> SPEC_EXEMPLO, comps |-> SweepRegistros[reg],
     Nmin |-> NMIN_EXEMPLO, RR_min |-> RRMIN_EXEMPLO, eta_G |-> ETA_EXEMPLO,
     F |-> F_EXEMPLO, q_liq |-> FSub(One, FRACAO_VAPOR), P |-> P_ATM,
     fatores_R |-> [j \in 1..Len(ordem) |-> FATORES_R[ordem[j]]],
     fR |-> None, RR_test |-> None, Nteo_test |-> None, N_real_test |-> None,
     N_pratos_test |-> None, sizing_test |-> None]

InitSweep ==
    /\ pc = "sweep"
    /\ \E reg \in 1..2, ordem \in SweepOrdens :
          /\ call = [reg |-> reg, ordem |-> ordem, amb |-> Ambiente(reg, ordem)]
          /\ res = [amb |-> Ambiente(reg, ordem), i |-> 0, linhas |-> <<>>]
    /\ feed = None /\ spec = None /\ fug = FUG0 /\ ran = <<>> /\ exc = None
    /\ uw = None /\ frame = UWFrame0

SweepIteracao ==
    /\ pc = "sweep" /\ res.i < Len(res.amb.fatores_R)
    /\ \E r \in {sweep_corpo(res.amb, res.amb.fatores_R[res.i + 1])} :
          IF r.raised # None
          THEN /\ exc' = r.raised /\ pc' = "raised"
               /\ res' = [res EXCEPT !.amb.fR = res.amb.fatores_R[res.i + 1]]
          ELSE /\ res' = [amb |-> atribuir_iteracao(res.amb, r.value),
                          i |-> res.i + 1,
                          linhas |-> Append(res.linhas, linha(r.value))]
               /\ UNCHANGED <<pc, exc>>
    /\ UNCHANGED <<feed, spec, fug, ran, uw, frame, call>>

SweepFim ==
    /\ pc = "sweep" /\ res.i = Len(res.amb.fatores_R)
    /\ pc' = "returned"
    /\ UNCHANGED <<feed, spec, fug, ran, exc, uw, frame, call, res>>

NextSweep == SweepIteracao \/ SweepFim

SpecSweep == InitSweep /\ [][NextSweep]_vars

\* ------------------------------------------------------------------------
\* Properties of the specification builder and of main (Spec)
\* ------------------------------------------------------------------------

\* C1: for every feed flow F and every 5-element composition z, the spec
\* built satisfies D_i[i] + B_i[i] = F_i[i] with F_i[i] = F * z[i] for each
\* component i; when z sums to 1, D + B = F.
C1_BalancoPorComponente ==
    spec # None =>
        /\ \A i \in 1..N_COMPONENTES :
              /\ spec.F_i[i] = FMul(feed.F, feed.z[i])
              /\ FAdd(spec.D_i[i], spec.B_i[i]) = spec.F_i[i]
        /\ FSum(feed.z) = One => FAdd(spec.D, spec.B) = feed.F

\* A spec built from a feed other than the literal one, z summing to 1.
C1_Witness ==
    /\ spec # None /\ feed.z # Z_EXEMPLO /\ feed.F # F_EXEMPLO
    /\ FSum(feed.z) = One /\ FGt(spec.B_i[3], Zero)

\* C2 as the spec states it: for the example scenario (F = 1000,
\* z = [0.05, 0.10, 0.25, 0.30, 0.30], recoveries [0.999, 0.995, 0.60, 0.05,
\* 0.001]) the builder gives D = 349.75 and B = 650.25, to two decimals.
C2_ExemploOriginal ==
    (spec # None /\ feed.F = F_EXEMPLO /\ feed.z = Z_EXEMPLO) =>
        /\ FLt(FAbs(FSub(spec.D, Dec(34975, 2))), Dec(5, 3))
        /\ FLt(FAbs(FSub(spec.B, Dec(65025, 2))), Dec(5, 3))

\* C2 as the code has it: for the example scenario the builder gives
\* D = 314.75 and B = 685.25, to two decimals.
C2_ExemploDestiladoEFundo ==
    (spec # None /\ feed.F = F_EXEMPLO /\ feed.z = Z_EXEMPLO) =>
        /\ FLt(FAbs(FSub(spec.D, Dec(31475, 2))), Dec(5, 3))
        /\ FLt(FAbs(FSub(spec.B, Dec(68525, 2))), Dec(5, 3))

\* The spec of the example scenario, built.
C2_Witness ==
    spec # None /\ feed.F = F_EXEMPLO /\ feed.z = Z_EXEMPLO /\ spec.R_D = R_D

\* C3: for any spec built (5 components, F > 0), xD and xB each sum to 1
\* within 1e-9, with xD[i] = D_i[i] / D and xB[i] = B_i[i] / B.
C3_ComposicoesSomamUm ==
    spec # None =>
        /\ FLt(FAbs(FSub(FSum(spec.xD), One)), Dec(1, 9))
        /\ FLt(FAbs(FSub(FSum(spec.xB), One)), Dec(1, 9))
        /\ \A i \in 1..N_COMPONENTES :
              /\ spec.xD[i] = FDiv(spec.D_i[i], spec.D)
              /\ spec.xB[i] = FDiv(spec.B_i[i], spec.B)

\* A spec whose distillate composition sums to 1 only up to rounding.
C3_Witness ==
    spec # None /\ FGt(feed.F, Zero) /\ FSum(spec.xD) # One

\* C4: a feed composition whose sum differs from 1 by more than 1e-6 is
\* rejected with a fatal error (ValueError) by the first call main makes on
\* it: no spec is built and no later stage is begun.
C4_ComposicaoRejeitadaAntesDoResto ==
    FGt(FAbs(FSub(FSum(feed.z), One)), Dec(1, 6)) =>
        /\ spec = None /\ fug = FUG0 /\ uw = None /\ frame = UWFrame0
        /\ \/ pc = "check_composicao" /\ ran = <<>> /\ exc = None
           \/ /\ pc = "raised" /\ ran = <<"check_composicao">>
              /\ exc # None /\ exc.type = "ValueError"

\* The feed summing to 1.0001, rejected.
C4_Witness ==
    feed.z = Z_1_0001 /\ pc = "raised" /\ exc.type = "ValueError"

\* C10: when any of xD[LK], xD[HK], xB[LK], xB[HK] is zero, fenske_Nmin fails
\* fatally and returns no N_min to the rest of the pipeline.
C10_FenskeFalhaComChaveNula ==
    (/\ \E i \in DOMAIN ran : ran[i] = "fenske_Nmin"
     /\ \E x \in {spec.xD[LK_index + 1], spec.xD[HK_index + 1],
                  spec.xB[LK_index + 1], spec.xB[HK_index + 1]} : x = Zero)
    => fug.Nmin = None /\ exc # None

\* ------------------------------------------------------------------------
\* Properties of solve_underwood_theta (SpecUW)
\* ------------------------------------------------------------------------

\* C5: whenever solve_underwood_theta returns a value theta, theta lies
\* strictly between alpha_HK and alpha_LK, and the Underwood balance
\* evaluated at theta is below the tolerance 1e-10 in absolute value; the
\* theta handed on by underwood_RRmin is that value.
C5_ThetaNoIntervaloComResiduoPequeno ==
    /\ frame.pc = "returned" =>
          /\ FLt(uw.alpha[uw.i_HK + 1], frame.ret)
          /\ FLt(frame.ret, uw.alpha[uw.i_LK + 1])
          /\ FLt(FAbs(underwood_balance(frame.ret, uw.alpha, uw.zF, uw.q_liq)),
                 Dec(1, 10))
    /\ pc = "gilliland_N" => fug.theta = frame.ret

\* A theta returned after thirty or more bisection steps.
C5_Witness == frame.pc = "returned" /\ frame.it >= 30

\* C6: if the balance has the same sign at alpha_HK + 1e-6 and at
\* alpha_LK - 1e-6, the call fails with the infeasibility error (ValueError)
\* before any bisection iteration: no midpoint is evaluated and neither theta
\* nor RR_min is produced.
C6_SemMudancaDeSinalFalhaAntesDeIterar ==
    (/\ frame.pc # "entry"
     /\ frame.it = 0
     /\ \/ FGt(frame.f_lo, Zero) /\ FGt(frame.f_hi, Zero)
        \/ FLt(frame.f_lo, Zero) /\ FLt(frame.f_hi, Zero))
    => /\ frame.pc = "raised" /\ pc = "raised"
       /\ exc = Exc("ValueError", MSG_SEM_SINAL, <<>>)
       /\ frame.mid = None /\ frame.f_mid = None /\ frame.ret = None
       /\ fug.theta = None /\ fug.RR_min = None

\* A call that ended so: both ends of the bracket strictly positive.
C6_Witness ==
    /\ frame.pc = "raised" /\ frame.it = 0
    /\ FGt(frame.f_lo, Zero) /\ FGt(frame.f_hi, Zero)

\* C7: the bisection ends after at most 100 evaluations of the midpoint.
\* Every step of the loop is one more evaluation, up to the 100th, or the
\* failure that follows the 100th.  The call returns only a theta whose
\* residual is below 1e-10; after 100 iterations without |f(mid)| < 1e-10 it
\* fails with the convergence error (RuntimeError), which is another exception
\* class than the one of the sign test (ValueError), raised only before the
\* first iteration.
C7_TerminaEmCemIteracoes ==
    /\ [](frame.it <= 100)
    /\ [][frame.pc = "loop" =>
            \/ frame.it < 100 /\ frame'.it = frame.it + 1
                              /\ frame'.pc \in {"loop", "returned"}
            \/ frame.it = 100 /\ frame'.it = 100 /\ frame'.pc = "raised"]_frame
    /\ [](frame.pc = "returned" =>
            frame.it >= 1 /\ FLt(FAbs(frame.f_mid), Dec(1, 10)))
    /\ [](frame.pc = "raised" /\ frame.it > 0 =>
            /\ frame.it = 100
            /\ ~FLt(FAbs(frame.f_mid), Dec(1, 10))
            /\ exc.type = "RuntimeError" /\ exc.type # "ValueError")
    /\ [](frame.pc = "raised" /\ frame.it = 0 => exc.type = "ValueError")

\* A call that failed to converge: one hundred iterations, then RuntimeError.
C7_Witness ==
    frame.pc = "raised" /\ frame.it = 100 /\ exc.type = "RuntimeError"

\* C8: when the bisection exceeds its iteration cap, the convergence error
\* raised reports the last bracket (lo, hi) and the last residual f(mid).
C8_ErroRelataIntervaloEResiduo ==
    (frame.pc = "raised" /\ frame.exc.type = "RuntimeError") =>
        \A v \in {frame.lo, frame.hi, frame.f_mid} :
            \E i \in DOMAIN frame.exc.dados : frame.exc.dados[i] = v

\* The bracket a call starts from, and the width of the current one.
lo_inicial == FAdd(uw.alpha[uw.i_HK + 1], MARGEM)
hi_inicial == FSub(uw.alpha[uw.i_LK + 1], MARGEM)
largura(fr) == FSub(fr.hi, fr.lo)
ULP == Dec(1, FracDigits)

\* The call is in or past its loop, and the balance had strictly opposite
\* signs at the two ends of the bracket it started from.
mudanca_estrita_de_sinal ==
    /\ frame.pc # "entry"
    /\ \E a \in {underwood_balance(lo_inicial, uw.alpha, uw.zF, uw.q_liq)},
          b \in {underwood_balance(hi_inicial, uw.alpha, uw.zF, uw.q_liq)} :
          FLt(FMul(a, b), Zero)

\* What holds of the bracket in every state of such a call: inside the
\* bracket of the start, not empty, and f_lo and f_hi, the balance at lo and
\* at hi, of strictly opposite signs.
intervalo_valido ==
    /\ FLe(lo_inicial, frame.lo) /\ FLt(frame.lo, frame.hi)
    /\ FLe(frame.hi, hi_inicial)
    /\ frame.f_lo = underwood_balance(frame.lo, uw.alpha, uw.zF, uw.q_liq)
    /\ frame.f_hi = underwood_balance(frame.hi, uw.alpha, uw.zF, uw.q_liq)
    /\ FLt(FMul(frame.f_lo, frame.f_hi), Zero)

\* One iteration that goes on: one end moves to the midpoint, the other stays.
um_extremo_ao_meio ==
    \/ frame'.lo = frame.lo /\ frame'.hi = frame'.mid
    \/ frame'.hi = frame.hi /\ frame'.lo = frame'.mid

\* The width after the iteration is half the width before, to the last place.
metade_da_largura ==
    \E w \in {largura(frame)}, w1 \in {largura(frame')} :
        FLe(FAbs(FSub(FAdd(w1, w1), w)), ULP)

\* C15 as stated: in a call whose first bracket has a strict sign change, at
\* every iteration the bracket stays inside [alpha_HK + 1e-6, alpha_LK - 1e-6]
\* with lo < hi, f(lo) and f(hi) have opposite signs, and the width halves:
\* each iteration leaves a bracket half as wide, hence narrower, than before.
C15_LarguraSempreReduzida ==
    /\ [](mudanca_estrita_de_sinal => intervalo_valido)
    /\ [][(mudanca_estrita_de_sinal /\ frame.pc = "loop" /\ frame'.pc = "loop")
            => /\ um_extremo_ao_meio
               /\ metade_da_largura
               /\ FLt(largura(frame'), largura(frame))]_frame

\* C15, amended: the bracket stays inside the first one with lo < hi, f(lo)
\* and f(hi) keep strictly opposite signs, and each iteration moves one end to
\* the midpoint, which halves the width to the last place of the arithmetic:
\* the width never grows, and once lo and hi are neighbouring numbers it stays
\* what it is for the iterations that remain.
C15_IntervaloDaBissecao ==
    /\ [](mudanca_estrita_de_sinal => intervalo_valido)
    /\ [][(mudanca_estrita_de_sinal /\ frame.pc = "loop" /\ frame'.pc = "loop")
            => /\ um_extremo_ao_meio
               /\ metade_da_largura
               /\ FLe(largura(frame'), largura(frame))
               /\ (FLt(ULP, largura(frame))
                     => FLt(largura(frame'), largura(frame)))]_frame

\* A call with a strict sign change, fifty or more iterations done, whose
\* bracket has shrunk to two neighbouring numbers.
C15_Witness ==
    /\ frame.pc = "loop" /\ frame.it >= 50
    /\ mudanca_estrita_de_sinal
    /\ largura(frame) = ULP

\* ------------------------------------------------------------------------
\* Properties of dimensionar_coluna_pratos (SpecPratos)
\* ------------------------------------------------------------------------

\* C9: the internal flows are L_R = RR*D, V_R = (RR+1)*D, L_S = L_R + q_liq*F
\* and a V_S for which the balance around the feed stage holds,
\* F + L_R + V_S = L_S + V_R, for every F > 0, RR >= 0 and q_liq in [0, 1].
C9_BalancoDoPratoDeAlimentacao ==
    res # None =>
        /\ res.L_R = FMul(call.RR, call.spec.D)
        /\ res.V_R = FMul(FAdd(call.RR, One), call.spec.D)
        /\ res.L_S = FAdd(res.L_R, FMul(call.q_liq, call.F))
        /\ FLt(FAbs(FSub(FAdd(FAdd(call.F, res.L_R), res.V_S),
                         FAdd(res.L_S, res.V_R))),
               Dec(1, 9))

\* ------------------------------------------------------------------------
\* Properties of gilliland_N (SpecGilliland)
\* ------------------------------------------------------------------------

C12_EficienciaFalhaCedo ==
    /\ (/\ ran # <<>> /\ ran[1] = "oconnell_eta"
        /\ FLe(FMul(call.alpha_rel, call.mu_F_cP), Zero))
       => /\ pc = "raised" /\ exc # None /\ exc.type = "ValueError"
          /\ ran = <<"oconnell_eta">>
          /\ res.eta_G = None /\ res.N_real = None
    /\ (ran # <<>> /\ ran[Len(ran)] = "calcular_N_real")
       => IF FLe(res.eta_G, Zero)
          THEN /\ pc = "raised" /\ exc # None /\ exc.type = "ValueError"
               /\ res.N_real = None
          ELSE /\ pc = "returned" /\ exc = None
               /\ res.N_real = FDiv(call.N_teorico, res.eta_G)

\* oconnell_eta called with a zero product, raised.
C12_Witness ==
    /\ pc = "raised" /\ ran = <<"oconnell_eta">>
    /\ FMul(call.alpha_rel, call.mu_F_cP) = Zero

\* ------------------------------------------------------------------------
\* Properties of massa_molar_media (SpecMassaMolar)
\* ------------------------------------------------------------------------

\* C14: in the average, a component whose molar mass is absent (an empty or
\* blank cell, None or nan) counts with the literature value of its identity (72.15, 86.18, 100.21,
\* 128.26, 142.29 for pentane, hexane, heptane, nonane, decane), never zero,
\* and one whose molar mass is present counts with it as given; when a
\* component has neither a molar mass nor a known fallback the call raises
\* (ValueError) and returns no average.
C14_MassaMolarAusente ==
    res # None =>
        LET comps == call.comps
            ausente(i) == call.celulas[i] # "csv"
            conhecido(i) == comps[i].codigo_prof \in {5, 6, 7, 9, 10}
            literatura(cod) ==
                CASE cod = 5 -> Dec(7215, 2) [] cod = 6 -> Dec(8618, 2)
                  [] cod = 7 -> Dec(10021, 2) [] cod = 9 -> Dec(12826, 2)
                  [] cod = 10 -> Dec(14229, 2)
            parcela(i) ==
                FMul(call.x[i], IF ausente(i) THEN literatura(comps[i].codigo_prof)
                                ELSE comps[i].MM)
        IN  IF \E i \in 1..Len(comps) : ausente(i) /\ ~conhecido(i)
            THEN /\ pc = "raised" /\ exc # None /\ exc.type = "ValueError"
                 /\ res.value = None
            ELSE /\ pc = "returned" /\ exc = None
                 /\ res.value = FSum([i \in 1..Len(comps) |-> parcela(i)])
                 /\ \A i \in 1..Len(comps) :
                       FGt(call.x[i], Zero) => FGt(parcela(i), Zero)

\* An average returned for a registry with an empty cell and a nan.
C14_Witness ==
    /\ pc = "returned"
    /\ \E i, j \in 1..5 : call.celulas[i] = "vazia" /\ call.comps[j].MM = NaN

\* ------------------------------------------------------------------------
\* Properties of the sweep (SpecSweep)
\* ------------------------------------------------------------------------

\* The row of multiplier FATORES_R[k] computed from the inputs of registry
\* reg alone, outside any loop.
linha_isolada(reg, k) ==
    Unico({ linha(r.value) :
              r \in {sweep_corpo(Ambiente(reg, <<>>), FATORES_R[k])} })
LinhasIsoladas ==
    [reg \in 1..2 |-> [k \in 1..4 |-> linha_isolada(reg, k)]]

\* C13: in the sweep, the row of each iteration (RR, N_teo, N_real, N_pratos,
\* diameter, total height) is the one its multiplier gives on the fixed
\* inputs alone, whatever multipliers came before it and in whatever order;
\* and the shared inputs (spec, components, N_min, RR_min, eta_G, F, q_liq,
\* P) are after every iteration what they were before the loop.
C13_IteracoesIndependentes ==
    pc \in {"sweep", "returned"} =>
        /\ Len(res.linhas) = res.i
        /\ \A j \in 1..Len(res.linhas) :
              res.linhas[j] = LinhasIsoladas[call.reg][call.ordem[j]]
        /\ \A v \in COMPARTILHADAS : res.amb[v] = call.amb[v]
        /\ res.amb.fatores_R = call.amb.fatores_R

\* A sweep finished after at least two iterations with the larger
\* multiplier first.
C13_Witness ==
    /\ pc = "returned" /\ res.i >= 2
    /\ call.ordem[1] > call.ordem[2]

====
